---- MODULE Spec2Model ----
(***************************************************************************)
(* Model of SimPID.py: the three plant models, the closed-loop PID         *)
(* simulation pid_simulation and the metric extraction calculate_metrics.  *)
(*                                                                         *)
(* Numbers.  The program computes in IEEE doubles.  Every input of the     *)
(* model is a dyadic rational (a multiple of a power of two) and the runs  *)
(* are short, so every double operation of pid_simulation on them is exact *)
(* and the model computes the same values with exact rationals [n, d].     *)
(* calculate_metrics also uses 0.02, 0.1, 0.9 and means over a sample      *)
(* count; these are modelled exactly, and the samples of the model stay    *)
(* away from the thresholds, so every comparison comes out as in doubles.  *)
(* Arrays are functions over 0..len-1, as numpy arrays are.                *)
(***************************************************************************)
EXTENDS Integers, FiniteSets, Sequences, TLC

VARIABLES
    pc,              \* position of the script / of pid_simulation
    args,            \* arguments of the current call of pid_simulation
    t, setpoint, y_open, y_closed, error, control_signal,   \* locals: arrays
    integral, prev_error,                                    \* locals: PID state
    y_plant, x1, x2, integral_plant,                         \* locals: plant state
    i,               \* loop index of the closed loop
    outcome,         \* "none", "returned" or the exception raised
    trace,           \* the tuple pid_simulation returned to the caller
    metrics,         \* the dict calculate_metrics returned
    saved            \* history: the first trace returned for a reference scenario,
                     \* and whether a run with other arguments returned since

vars == <<pc, args, t, setpoint, y_open, y_closed, error, control_signal,
          integral, prev_error, y_plant, x1, x2, integral_plant, i,
          outcome, trace, metrics, saved>>

-----------------------------------------------------------------------------
(* Exact rational arithmetic standing for the double arithmetic.           *)

AbsInt(a) == IF a < 0 THEN -a ELSE a

RECURSIVE GCD(_, _)
GCD(a, b) == IF b = 0 THEN a ELSE GCD(b, a % b)

Norm(n, d) == LET g == GCD(AbsInt(n), d) IN [n |-> n \div g, d |-> d \div g]

R(n, d) == Norm(n, d)

Zero == [n |-> 0, d |-> 1]
One == [n |-> 1, d |-> 1]
\* An unbound local / an absent dict key: no number at all.
Unbound == [n |-> 0, d |-> 0]

\* sums over the least common denominator and products with the common
\* factors cancelled first, to keep the integers small
Add(a, b) ==
    LET g == GCD(a.d, b.d)
    IN Norm(a.n * (b.d \div g) + b.n * (a.d \div g), (a.d \div g) * b.d)
Neg(a) == [n |-> -a.n, d |-> a.d]
Sub(a, b) == Add(a, Neg(b))
Mul(a, b) ==
    LET g1 == GCD(AbsInt(a.n), b.d)
        g2 == GCD(AbsInt(b.n), a.d)
    IN [n |-> (a.n \div g1) * (b.n \div g2), d |-> (a.d \div g2) * (b.d \div g1)]
\* a / b for b # 0 (the callers raise ZeroDivisionError before dividing by 0)
Div(a, b) == IF b.n > 0 THEN Mul(a, [n |-> b.d, d |-> b.n])
                        ELSE Mul(a, [n |-> -b.d, d |-> -b.n])
Lt(a, b) == Sub(a, b).n < 0
Leq(a, b) == Sub(a, b).n <= 0
AbsR(a) == [n |-> AbsInt(a.n), d |-> a.d]
FromInt(j) == [n |-> j, d |-> 1]
\* math.ceil of a rational
Ceil(a) == -((-a.n) \div a.d)

-----------------------------------------------------------------------------
(* numpy arrays                                                            *)

Len0(a) == Cardinality(DOMAIN a)
Empty == [j \in {} |-> Zero]
zeros_like(a) == [j \in DOMAIN a |-> Zero]
ones_like(a) == [j \in DOMAIN a |-> One]
\* a grid cut at floor(stop/step) samples
arange_floor(stop, step) ==
    [j \in 0 .. ((Div(stop, step).n \div Div(stop, step).d) - 1) |->
        Mul(FromInt(j), step)]

\* np.arange(0, stop, step): ceil((stop - 0)/step) samples 0 + j*step
arange(stop, step) ==
    [j \in 0 .. (Ceil(Div(stop, step)) - 1) |-> Mul(FromInt(j), step)]

-----------------------------------------------------------------------------
(* The stand-alone plant models                                            *)

\* the update without the relaxation term
first_order_update_norelax(y_prev, u, k, tau, dt) ==
    Add(y_prev, Mul(Div(dt, tau), Mul(k, u)))

first_order_update(y_prev, u, k, tau, dt) ==
    Add(y_prev, Mul(Div(dt, tau), Sub(Mul(k, u), y_prev)))

RECURSIVE first_order_loop(_, _, _, _, _, _, _)
first_order_loop(u, k, tau, dt, j, y_prev, y) ==
    IF j = Len0(u) THEN y
    ELSE LET yj == first_order_update(y_prev, u[j], k, tau, dt)
         IN first_order_loop(u, k, tau, dt, j + 1, yj, [y EXCEPT ![j] = yj])

first_order_model(u, k, tau, dt) ==
    first_order_loop(u, k, tau, dt, 0, Zero, zeros_like(u))

\* the new <<x1, x2>> of one iteration of second_order_model
second_order_update(s1, s2, u, k, wn, zeta, dt) ==
    LET dx1 == s2
        dx2 == Add(Sub(Mul(Mul(Neg(wn), wn), s1),
                       Mul(Mul(Mul(FromInt(2), zeta), wn), s2)),
                   Mul(Mul(Mul(k, wn), wn), u))
    IN <<Add(s1, Mul(dx1, dt)), Add(s2, Mul(dx2, dt))>>

RECURSIVE second_order_loop(_, _, _, _, _, _, _, _, _)
second_order_loop(u, k, wn, zeta, dt, j, s1, s2, y) ==
    IF j = Len0(u) THEN y
    ELSE LET s == second_order_update(s1, s2, u[j], k, wn, zeta, dt)
         IN second_order_loop(u, k, wn, zeta, dt, j + 1, s[1], s[2],
                              [y EXCEPT ![j] = s[1]])

second_order_model(u, k, wn, zeta, dt) ==
    second_order_loop(u, k, wn, zeta, dt, 0, Zero, Zero, zeros_like(u))

integrator_update(acc, u, k, dt) == Add(acc, Mul(Mul(k, u), dt))

RECURSIVE integrator_loop(_, _, _, _, _, _)
integrator_loop(u, k, dt, j, acc, y) ==
    IF j = Len0(u) THEN y
    ELSE LET a == integrator_update(acc, u[j], k, dt)
         IN integrator_loop(u, k, dt, j + 1, a, [y EXCEPT ![j] = a])

integrator_model(u, k, dt) == integrator_loop(u, k, dt, 0, Zero, zeros_like(u))

-----------------------------------------------------------------------------
(* Inputs                                                                  *)

\* t_sim ranges over 2/4 .. MaxQuarters/4
MaxQuarters == 4

PrimerOrden == "Primer Orden"
SegundoOrden == "Segundo Orden"
Integrador == "Integrador"

KpValues == {FromInt(2)}
GainValues == {Zero, One}
KValues == {FromInt(2)}
TauValues == {Zero, R(1, 4), One}
WnValues == {Zero, One, FromInt(2)}
ZetaValues == {R(1, 2)}
DtValues == {R(1, 4), R(1, 2)}
TSimValues == {R(q, 4) : q \in 2 .. MaxQuarters}

\* system_params holds only the keys of the chosen system type
SystemParams ==
    [system_type : {PrimerOrden}, k : KValues, tau : TauValues,
     wn : {Unbound}, zeta : {Unbound}]
    \cup [system_type : {SegundoOrden}, k : KValues, tau : {Unbound},
          wn : WnValues, zeta : ZetaValues]
    \cup [system_type : {Integrador}, k : KValues, tau : {Unbound},
          wn : {Unbound}, zeta : {Unbound}]

Arguments ==
    {[system_type |-> p.system_type, k |-> p.k, tau |-> p.tau, wn |-> p.wn,
      zeta |-> p.zeta, kp |-> g[1], ki |-> g[2], kd |-> g[3],
      t_sim |-> ts, dt |-> d] :
        p \in SystemParams, g \in KpValues \X GainValues \X GainValues,
        ts \in TSimValues, d \in DtValues}

NoArguments ==
    [system_type |-> "", k |-> Unbound, tau |-> Unbound, wn |-> Unbound,
     zeta |-> Unbound, kp |-> Unbound, ki |-> Unbound, kd |-> Unbound,
     t_sim |-> Unbound, dt |-> Unbound]

NoTrace ==
    [t |-> Empty, setpoint |-> Empty, y_open |-> Empty, y_closed |-> Empty,
     error |-> Empty, control_signal |-> Empty]

NoMetrics == [j \in {} |-> Zero]

NoSaved ==
    [valid |-> FALSE, args |-> NoArguments, trace |-> NoTrace, later |-> FALSE]

\* the scenarios whose first returned trace the history variable keeps
ReferenceScenario(a) ==
    /\ a.kp = FromInt(2) /\ a.ki = One /\ a.kd = One
    /\ a.dt = R(1, 4) /\ a.t_sim = R(3, 4)
    /\ a.tau \in {One, Unbound} /\ a.wn \in {One, Unbound}

-----------------------------------------------------------------------------
(* pid_simulation                                                          *)

Init ==
    /\ pc = "idle"
    /\ args = NoArguments
    /\ t = Empty /\ setpoint = Empty /\ y_open = Empty
    /\ y_closed = Empty /\ error = Empty /\ control_signal = Empty
    /\ integral = Zero /\ prev_error = Zero
    /\ y_plant = Unbound /\ x1 = Unbound /\ x2 = Unbound
    /\ integral_plant = Unbound
    /\ i = 0
    /\ outcome = "none"
    /\ trace = NoTrace
    /\ metrics = NoMetrics
    /\ saved = NoSaved

\* an accumulator that outlives the call
StaleIntegral == integral

\* the state a run starts from: "integral = 0", "prev_error = 0" and the
\* plant state of the chosen system type
InitialIntegral == Zero
InitialPrevError == Zero
InitialPlantState(system_type) ==
    [y_plant |-> IF system_type = PrimerOrden THEN Zero ELSE Unbound,
     x1 |-> IF system_type = SegundoOrden THEN Zero ELSE Unbound,
     x2 |-> IF system_type = SegundoOrden THEN Zero ELSE Unbound,
     integral_plant |-> IF system_type = Integrador THEN Zero ELSE Unbound]

\* dt/tau of first_order_model divides two Python floats
OpenLoopRaises(a, u) ==
    /\ a.system_type = PrimerOrden
    /\ a.tau = Zero
    /\ Len0(u) > 0

\* the open-loop run of the chosen plant on the unit step
open_loop(a, u_open) ==
    IF a.system_type = PrimerOrden
    THEN first_order_model(u_open, a.k, a.tau, a.dt)
    ELSE IF a.system_type = SegundoOrden
    THEN second_order_model(u_open, a.k, a.wn, a.zeta, a.dt)
    ELSE integrator_model(u_open, a.k, a.dt)

\* The script (re)runs and calls pid_simulation: the time grid, the unit
\* step, the open-loop run and the initialisation of the closed loop, up to
\* the head of the for loop.  A rerun starts with no trace and no metrics.
\* The variables of the locals hold the frame of the latest call: a frame
\* that raised in the open-loop run never bound the later locals.
Call ==
    /\ pc \in {"idle", "rendered", "raised"}
    /\ trace' = NoTrace
    /\ metrics' = NoMetrics
    /\ \E a \in Arguments :
        LET tt == arange(a.t_sim, a.dt)
            sp == ones_like(tt)
        IN /\ args' = a
           /\ t' = tt
           /\ setpoint' = sp
           /\ IF OpenLoopRaises(a, sp)
              THEN /\ pc' = "raised"
                   /\ outcome' = "ZeroDivisionError"
                   /\ y_open' = Empty /\ y_closed' = Empty
                   /\ error' = Empty /\ control_signal' = Empty
                   /\ integral' = Zero /\ prev_error' = Zero
                   /\ y_plant' = Unbound /\ x1' = Unbound /\ x2' = Unbound
                   /\ integral_plant' = Unbound
                   /\ i' = 0
              ELSE /\ pc' = "closed_loop"
                   /\ outcome' = "none"
                   /\ y_open' = open_loop(a, sp)
                   /\ y_closed' = zeros_like(tt)
                   /\ error' = zeros_like(tt)
                   /\ control_signal' = zeros_like(tt)
                   /\ integral' = InitialIntegral
                   /\ prev_error' = InitialPrevError
                   /\ y_plant' = InitialPlantState(a.system_type).y_plant
                   /\ x1' = InitialPlantState(a.system_type).x1
                   /\ x2' = InitialPlantState(a.system_type).x2
                   /\ integral_plant' =
                          InitialPlantState(a.system_type).integral_plant
                   /\ i' = 0
    /\ UNCHANGED saved

\* feedback of the slot of the same step
current_output_same_step(y, j) == y[j]

current_output(y, j) == IF j = 0 THEN Zero ELSE y[j - 1]

pid_integral(acc, e, dt) == Add(acc, Mul(e, dt))

\* the difference quotient taken on the first step too
pid_derivative_always(j, e, prev, dt) == Div(Sub(e, prev), dt)

pid_derivative(j, e, prev, dt) ==
    IF j > 0 THEN Div(Sub(e, prev), dt) ELSE Zero

pid_control(kp, ki, kd, e, integ, deriv) ==
    Add(Add(Mul(kp, e), Mul(ki, integ)), Mul(kd, deriv))

\* the plant updates written out inside the closed loop
closed_first_order(y, u, k, tau, dt) ==
    Add(y, Mul(Div(dt, tau), Sub(Mul(k, u), y)))

\* x2 advanced from the already advanced x1
closed_second_order_semi(s1, s2, u, k, wn, zeta, dt) ==
    LET n1 == Add(s1, Mul(s2, dt))
        dx2 == Add(Sub(Mul(Mul(Neg(wn), wn), n1),
                       Mul(Mul(Mul(FromInt(2), zeta), wn), s2)),
                   Mul(Mul(Mul(k, wn), wn), u))
    IN <<n1, Add(s2, Mul(dx2, dt))>>

closed_second_order(s1, s2, u, k, wn, zeta, dt) ==
    LET dx1 == s2
        dx2 == Add(Sub(Mul(Mul(Neg(wn), wn), s1),
                       Mul(Mul(Mul(FromInt(2), zeta), wn), s2)),
                   Mul(Mul(Mul(k, wn), wn), u))
    IN <<Add(s1, Mul(dx1, dt)), Add(s2, Mul(dx2, dt))>>

closed_integrator(acc, u, k, dt) == Add(acc, Mul(Mul(k, u), dt))

\* One iteration of "for i in range(len(t))".
ClosedLoopStep ==
    /\ pc = "closed_loop"
    /\ i < Len0(t)
    /\ LET e == Sub(setpoint[i], current_output(y_closed, i))
           integ == pid_integral(integral, e, args.dt)
           deriv == pid_derivative(i, e, prev_error, args.dt)
           u == pid_control(args.kp, args.ki, args.kd, e, integ, deriv)
       IN /\ error' = [error EXCEPT ![i] = e]
          /\ integral' = integ
          /\ control_signal' = [control_signal EXCEPT ![i] = u]
          /\ IF args.system_type = PrimerOrden
             THEN LET y == closed_first_order(y_plant, u, args.k, args.tau,
                                              args.dt)
                  IN /\ y_plant' = y
                     /\ y_closed' = [y_closed EXCEPT ![i] = y]
                     /\ UNCHANGED <<x1, x2, integral_plant>>
             ELSE IF args.system_type = SegundoOrden
             THEN LET s == closed_second_order(x1, x2, u, args.k, args.wn,
                                               args.zeta, args.dt)
                  IN /\ x1' = s[1]
                     /\ x2' = s[2]
                     /\ y_closed' = [y_closed EXCEPT ![i] = s[1]]
                     /\ UNCHANGED <<y_plant, integral_plant>>
             ELSE LET a == closed_integrator(integral_plant, u, args.k, args.dt)
                  IN /\ integral_plant' = a
                     /\ y_closed' = [y_closed EXCEPT ![i] = a]
                     /\ UNCHANGED <<y_plant, x1, x2>>
          /\ prev_error' = e
    /\ i' = i + 1
    /\ UNCHANGED <<pc, args, t, setpoint, y_open, outcome, trace, metrics,
                   saved>>

Return ==
    /\ pc = "closed_loop"
    /\ i = Len0(t)
    /\ trace' = [t |-> t, setpoint |-> setpoint, y_open |-> y_open,
                 y_closed |-> y_closed, error |-> error,
                 control_signal |-> control_signal]
    /\ outcome' = "returned"
    /\ pc' = "returned"
    /\ saved' = IF ~saved.valid /\ ReferenceScenario(args)
                THEN [valid |-> TRUE, args |-> args, trace |-> trace',
                      later |-> FALSE]
                ELSE IF saved.valid /\ saved.args # args
                THEN [saved EXCEPT !.later = TRUE]
                ELSE saved
    /\ UNCHANGED <<args, t, setpoint, y_open, y_closed, error, control_signal,
                   integral, prev_error, y_plant, x1, x2, integral_plant, i,
                   metrics>>

-----------------------------------------------------------------------------
(* calculate_metrics                                                       *)

SettlingWindow == 200
SteadyWindow == 100
IntegratorMinLen == 100
IntegratorWindow == 50

Max2(a, b) == IF a > b THEN a ELSE b

\* sums and maxima split the range in halves to keep the evaluation shallow
RECURSIVE SumRange(_, _, _)
SumRange(a, lo, hi) ==
    IF lo > hi THEN Zero
    ELSE IF lo = hi THEN a[lo]
    ELSE LET mid == (lo + hi) \div 2
         IN Add(SumRange(a, lo, mid), SumRange(a, mid + 1, hi))

\* np.mean(a[-w:])
mean_last(a, w) ==
    LET lo == Max2(0, Len0(a) - w)
    IN Div(SumRange(a, lo, Len0(a) - 1), FromInt(Len0(a) - lo))

RECURSIVE MaxRange(_, _, _)
MaxRange(a, lo, hi) ==
    IF lo = hi THEN a[lo]
    ELSE LET mid == (lo + hi) \div 2
             l == MaxRange(a, lo, mid)
             r == MaxRange(a, mid + 1, hi)
         IN IF Lt(l, r) THEN r ELSE l

\* np.max(a)
np_max(a) == MaxRange(a, 0, Len0(a) - 1)

\* np.where(a >= target)[0]
where_geq(a, target) == {j \in DOMAIN a : Leq(target, a[j])}

FirstIndex(S) == CHOOSE j \in S : \A m \in S : j <= m

outside_band(y, final_value, settling_band) ==
    Lt(settling_band, AbsR(Sub(y, final_value)))

LastIndex(S) == CHOOSE j \in S : \A m \in S : m <= j

\* the backward scan "for i in range(len-1, max(0, len-200), -1)" with its
\* break at the first sample outside the band; Unbound stands for None
settling_scan(tt, y, final_value, settling_band, start, stop) ==
    LET hits == {j \in (stop + 1) .. start :
                    outside_band(y[j], final_value, settling_band)}
    IN IF hits = {} THEN Unbound
       ELSE LET j == LastIndex(hits)
            IN IF j < Len0(tt) - 1 THEN tt[j] ELSE tt[Len0(tt) - 1]

\* the end of the trace reported when no sample leaves the band
settling_time_default_last(tt, y, final_value) ==
    LET settling_band == Mul(R(2, 100), final_value)
        found == settling_scan(tt, y, final_value, settling_band,
                               Len0(y) - 1, Max2(0, Len0(y) - SettlingWindow))
    IN IF found = Unbound THEN tt[Len0(tt) - 1] ELSE found

settling_time_of(tt, y, final_value) ==
    LET settling_band == Mul(R(2, 100), final_value)
        found == settling_scan(tt, y, final_value, settling_band,
                               Len0(y) - 1, Max2(0, Len0(y) - SettlingWindow))
    IN IF found = Unbound THEN Zero ELSE found

steady_state_error_of(y, final_value, system_type) ==
    IF system_type = Integrador
    THEN LET final_value_actual ==
                 IF Len0(y) > IntegratorMinLen
                 THEN mean_last(y, IntegratorWindow)
                 ELSE y[Len0(y) - 1]
         IN AbsR(Sub(final_value, final_value_actual))
    ELSE AbsR(Sub(final_value, mean_last(y, SteadyWindow)))

overshoot_percent_of(y, final_value) ==
    IF final_value # Zero
    THEN Mul(Div(Sub(np_max(y), final_value), final_value), FromInt(100))
    ELSE Zero

rise_time_of(tt, y, final_value) ==
    LET rise_start == where_geq(y, Mul(R(1, 10), final_value))
        rise_end == where_geq(y, Mul(R(9, 10), final_value))
    IN IF rise_start # {} /\ rise_end # {}
       THEN Sub(tt[FirstIndex(rise_end)], tt[FirstIndex(rise_start)])
       ELSE Zero

\* the key stored for every system type
metrics_dict_always(overshoot_percent, rise_time, steady_state_error, settling_time, system_type) ==
    [overshoot_percent |-> overshoot_percent, rise_time |-> rise_time,
     steady_state_error |-> steady_state_error,
     settling_time |-> settling_time]

metrics_dict(overshoot_percent, rise_time, steady_state_error, settling_time, system_type) ==
    LET base == [overshoot_percent |-> overshoot_percent,
                 rise_time |-> rise_time,
                 steady_state_error |-> steady_state_error]
    IN IF system_type # Integrador
       THEN base @@ ("settling_time" :> settling_time)
       ELSE base

calculate_metrics(tt, y, sp, system_type) ==
    LET final_value == sp[Len0(sp) - 1]
    IN metrics_dict(overshoot_percent_of(y, final_value),
                    rise_time_of(tt, y, final_value),
                    steady_state_error_of(y, final_value, system_type),
                    IF system_type # Integrador
                    THEN settling_time_of(tt, y, final_value)
                    ELSE Unbound,
                    system_type)

\* The script hands the returned trace to calculate_metrics and renders.
CalculateMetrics ==
    /\ pc = "returned"
    /\ metrics' = calculate_metrics(trace.t, trace.y_closed, trace.setpoint,
                                    args.system_type)
    /\ pc' = "rendered"
    /\ UNCHANGED <<args, t, setpoint, y_open, y_closed, error, control_signal,
                   integral, prev_error, y_plant, x1, x2, integral_plant, i,
                   outcome, trace, saved>>

Next ==
    \/ Call
    \/ ClosedLoopStep
    \/ Return
    \/ CalculateMetrics

Spec == Init /\ [][Next]_vars

-----------------------------------------------------------------------------
(* calculate_metrics as a function of its inputs: traces of 1..MaxShort    *)
(* samples and of SettlingWindow-1 .. SettlingWindow+MaxOver samples, in   *)
(* the band except at up to two places near the ends of the trace and of   *)
(* the scanned window.                                                     *)

MaxShort == 3
MaxOver == 2

MetricLengths ==
    (1 .. MaxShort) \cup ((SettlingWindow - 1) .. (SettlingWindow + MaxOver))

Excursions(len) ==
    {S \in SUBSET ({0, 1, len - SettlingWindow - 1, len - SettlingWindow,
                    len - SettlingWindow + 1, len - 2, len - 1}
                   \cap (0 .. (len - 1))) : Cardinality(S) <= 2}

InBandValues == {One, R(65, 64)}
OutOfBandValues == {Zero, R(3, 2)}

MetricsStep == R(1, 64)

InitMetrics ==
    /\ pc = "returned"
    /\ \E st \in {PrimerOrden, SegundoOrden, Integrador} :
          args = [NoArguments EXCEPT !.system_type = st]
    /\ \E len \in MetricLengths :
       \E S \in Excursions(len) :
       \E inv \in InBandValues :
       \E ov \in OutOfBandValues :
          LET tt == arange(Mul(FromInt(len), MetricsStep), MetricsStep)
          IN trace = [t |-> tt, setpoint |-> ones_like(tt), y_open |-> Empty,
                      y_closed |-> [j \in DOMAIN tt |->
                                       IF j \in S THEN ov ELSE inv],
                      error |-> Empty, control_signal |-> Empty]
    /\ t = Empty /\ setpoint = Empty /\ y_open = Empty
    /\ y_closed = Empty /\ error = Empty /\ control_signal = Empty
    /\ integral = Zero /\ prev_error = Zero
    /\ y_plant = Unbound /\ x1 = Unbound /\ x2 = Unbound
    /\ integral_plant = Unbound
    /\ i = 0
    /\ outcome = "returned"
    /\ metrics = NoMetrics
    /\ saved = NoSaved

NextMetrics == CalculateMetrics

SpecMetrics == InitMetrics /\ [][NextMetrics]_vars

-----------------------------------------------------------------------------
(* Properties of pid_simulation, checked under Spec                        *)

\* steps 0 .. i-1 of the closed loop of the current call are complete
InClosedLoop == pc \in {"closed_loop", "returned", "rendered"}

Steps == 0 .. (i - 1)

\* C1: in the closed loop error[0] = setpoint[0] - 0 and, for j > 0,
\* error[j] = setpoint[j] - y_closed[j-1]: the error of a step is formed
\* from the plant output of the step before, for every system type.
C1_FeedbackDelay ==
    InClosedLoop =>
        \A j \in Steps :
            error[j] = Sub(setpoint[j],
                           IF j = 0 THEN Zero ELSE y_closed[j - 1])

C1_Witness ==
    /\ pc = "returned"
    /\ i >= 3
    /\ y_closed[1] # Zero
    /\ y_closed[1] # y_closed[2]
    /\ error[2] = Sub(One, y_closed[1])

InvalidParameter(a) ==
    \/ a.system_type = PrimerOrden /\ a.tau = Zero
    \/ a.system_type = SegundoOrden /\ a.wn = Zero

\* C2: a call with tau = 0 (first order) or wn = 0 (second order) ends in an
\* InvalidParameter error before any integration step and never returns a
\* trace.
C2_InvalidParameterFailsFast ==
    (pc # "idle" /\ InvalidParameter(args)) =>
        /\ pc = "raised"
        /\ outcome = "InvalidParameter"
        /\ trace = NoTrace

Floor(a) == a.n \div a.d

TraceLengths ==
    {Len0(trace.t), Len0(trace.setpoint), Len0(trace.y_open),
     Len0(trace.y_closed), Len0(trace.error), Len0(trace.control_signal)}

\* C5 as stated: the six returned sequences have the length
\* floor(t_sim/dt) and the setpoint is 1.0 at every index.
C5_LengthIsFloor ==
    pc = "returned" =>
        /\ TraceLengths = {Floor(Div(args.t_sim, args.dt))}
        /\ \A j \in DOMAIN trace.setpoint : trace.setpoint[j] = One

\* C5 amended: the six returned sequences have one common length N, the
\* least integer with N*dt >= t_sim (N = ceil(t_sim/dt), which is
\* floor(t_sim/dt) only when dt divides t_sim), and the setpoint is 1.0 at
\* every index.
C5_LengthIsCeil ==
    pc = "returned" =>
        /\ TraceLengths = {Len0(trace.t)}
        /\ Lt(Mul(FromInt(Len0(trace.t) - 1), args.dt), args.t_sim)
        /\ Leq(args.t_sim, Mul(FromInt(Len0(trace.t)), args.dt))
        /\ \A j \in DOMAIN trace.setpoint : trace.setpoint[j] = One

C5_Witness ==
    /\ pc = "returned"
    /\ args.t_sim = R(3, 4)
    /\ args.dt = R(1, 2)
    /\ TraceLengths = {2}

\* C6: control_signal[j] = kp*error[j] + ki*I[j] + kd*D[j] with
\* I[j] = dt*(error[0] + ... + error[j]), D[0] = 0 and
\* D[j] = (error[j] - error[j-1])/dt for j > 0.
C6_PidLaw ==
    InClosedLoop =>
        \A j \in Steps :
            control_signal[j] =
                Add(Add(Mul(args.kp, error[j]),
                        Mul(args.ki, Mul(args.dt, SumRange(error, 0, j)))),
                    Mul(args.kd,
                        IF j = 0 THEN Zero
                        ELSE Div(Sub(error[j], error[j - 1]), args.dt)))

C6_Witness ==
    /\ pc = "returned"
    /\ i >= 3
    /\ args.ki = One /\ args.kd = One
    /\ error[2] # error[1]
    /\ error[1] # Zero
    /\ control_signal[2] # Mul(args.kp, error[2])

PlantStateIsZero ==
    /\ args.system_type = PrimerOrden => y_plant = Zero
    /\ args.system_type = SegundoOrden => x1 = Zero /\ x2 = Zero
    /\ args.system_type = Integrador => integral_plant = Zero

\* C7: whatever ran before, a run enters the closed loop with integral,
\* prev_error and the plant state equal to zero, and a run with the
\* arguments of an earlier run returns the trace that run returned.
C7_FreshStatePerRun ==
    /\ (pc = "closed_loop" /\ i = 0) =>
           integral = Zero /\ prev_error = Zero /\ PlantStateIsZero
    /\ (pc = "returned" /\ saved.valid /\ saved.args = args) =>
           trace = saved.trace

C7_Witness ==
    /\ pc = "returned"
    /\ saved.valid /\ saved.later
    /\ saved.args = args
    /\ trace = saved.trace
    /\ integral # Zero
    /\ trace.y_closed[2] # Zero

\* C9: for the first-order plant driven open-loop by the unit step, with
\* k > 0 and 0 < dt <= tau, y[j] <= y[j+1] <= k for every j and the gap
\* shrinks geometrically: k - y[j+1] = (1 - dt/tau)*(k - y[j]), starting
\* from k - y[0] = (1 - dt/tau)*k.
C9_FirstOrderStepResponse ==
    (/\ InClosedLoop
     /\ args.system_type = PrimerOrden
     /\ Lt(Zero, args.k)
     /\ Lt(Zero, args.dt) /\ Leq(args.dt, args.tau)) =>
        LET q == Sub(One, Div(args.dt, args.tau))
        IN /\ \A j \in DOMAIN y_open : Leq(y_open[j], args.k)
           /\ Sub(args.k, y_open[0]) = Mul(q, args.k)
           /\ \A j \in DOMAIN y_open :
                 (j + 1) \in DOMAIN y_open =>
                     /\ Leq(y_open[j], y_open[j + 1])
                     /\ Sub(args.k, y_open[j + 1]) =
                            Mul(q, Sub(args.k, y_open[j]))

C9_Witness ==
    /\ pc = "returned"
    /\ args.system_type = PrimerOrden
    /\ Lt(args.dt, args.tau)
    /\ Len0(y_open) >= 3
    /\ Lt(Zero, y_open[0])
    /\ Lt(y_open[0], y_open[1])
    /\ Lt(y_open[1], y_open[2])
    /\ Lt(y_open[2], args.k)

\* the stand-alone plant function of the current system type on input u
plant_model(u) ==
    IF args.system_type = PrimerOrden
    THEN first_order_model(u, args.k, args.tau, args.dt)
    ELSE IF args.system_type = SegundoOrden
    THEN second_order_model(u, args.k, args.wn, args.zeta, args.dt)
    ELSE integrator_model(u, args.k, args.dt)

\* C10: for each system type, the stand-alone plant function fed with the
\* control_signal of the closed loop reproduces y_closed at every index.
C10_InlineEqualsStandAlone ==
    InClosedLoop =>
        \A j \in Steps : y_closed[j] = plant_model(control_signal)[j]

C10_Witness ==
    /\ pc = "returned"
    /\ args.system_type = SegundoOrden
    /\ args.wn # Zero
    /\ i >= 3
    /\ control_signal[1] # control_signal[0]
    /\ y_closed[2] # Zero
    /\ y_closed = second_order_model(control_signal, args.k, args.wn,
                                     args.zeta, args.dt)

-----------------------------------------------------------------------------
(* Properties of calculate_metrics, checked under SpecMetrics              *)

FinalValue == trace.setpoint[Len0(trace.setpoint) - 1]

\* the final 200 samples of the closed-loop output, or all when fewer
FinalWindow ==
    {j \in DOMAIN trace.y_closed : j >= Len0(trace.y_closed) - SettlingWindow}

OutOfBand(j) ==
    Lt(Mul(R(2, 100), FinalValue), AbsR(Sub(trace.y_closed[j], FinalValue)))

\* C3: for a plant other than the integrator, when a sample of the final
\* 200 lies outside the 2% band, settling_time is the time stamp of the
\* sample right after the latest sample outside the band.
C3_SettlingTimeAfterExcursion ==
    (/\ pc = "rendered"
     /\ args.system_type # Integrador
     /\ \E j \in FinalWindow : OutOfBand(j)) =>
        LET last == LastIndex({j \in FinalWindow : OutOfBand(j)})
        IN (last + 1) \in DOMAIN trace.t =>
               metrics["settling_time"] = trace.t[last + 1]

MetricKeys == {"overshoot_percent", "rise_time", "steady_state_error"}

\* C4: the metrics hold the key settling_time for the first-order and the
\* second-order plant and never for the integrator; the three other keys
\* are present for all three.
C4_SettlingTimeKey ==
    pc = "rendered" =>
        /\ MetricKeys \subseteq DOMAIN metrics
        /\ ("settling_time" \in DOMAIN metrics) <=>
               (args.system_type # Integrador)

C4_Witness ==
    /\ pc = "rendered"
    /\ args.system_type = Integrador
    /\ Len0(trace.y_closed) > SettlingWindow
    /\ DOMAIN metrics = MetricKeys

\* C8: for a plant other than the integrator, when every sample of the
\* final 200 (of the whole trace when shorter) is within the 2% band,
\* settling_time is 0.
C8_SettlingTimeZeroInBand ==
    (/\ pc = "rendered"
     /\ args.system_type # Integrador
     /\ \A j \in FinalWindow : ~OutOfBand(j)) =>
        metrics["settling_time"] = Zero

C8_Witness ==
    /\ pc = "rendered"
    /\ args.system_type = SegundoOrden
    /\ Len0(trace.y_closed) > SettlingWindow
    /\ \A j \in FinalWindow : ~OutOfBand(j)
    /\ \E j \in DOMAIN trace.y_closed : OutOfBand(j)
    /\ metrics["settling_time"] = Zero

====
